---- MODULE Spec2Model ----
(***************************************************************************)
(* Instruction-to-extraction-plan pipeline of the AI web content           *)
(* extractor: parseInstruction / quickParseInstruction /                   *)
(* aiParseInstruction / createExtractionPlan (ai/instruction-parser.js)    *)
(* and executeExtractionPlan (extractors/intelligent-extractor.js, in its  *)
(* two versions), postProcessWithAI, the request handlers of               *)
(* runInstructionBasedCrawler (main.js), and the AI-configuration gate     *)
(* isAIConfigured (ai/index.js) against callAI (ai/providers.js).          *)
(*                                                                         *)
(* JavaScript strings are sequences of one-character strings, so that      *)
(* toLowerCase, String.includes and the two file-name regular expressions  *)
(* are computed, not assumed. Confidences are in hundredths (0.95 = 95).   *)
(* JavaScript objects with optional keys are functions whose DOMAIN is the *)
(* set of keys present.                                                    *)
(***************************************************************************)
EXTENDS Integers, Sequences, FiniteSets, TLC

VARIABLES instruction, url, aiConfig, page, pc, parsed, branch, aiOutcome,
          aiLog, plan, executor, moduleOutcome, invoked, results,
          postProcessor, aiResponse, aiBackend,
          slowMode, crawl, crawlResults, successCount, failCount,
          env, gate

\* what postProcessWithAI adds to the state of one request
postVars == <<postProcessor, aiResponse, aiBackend>>

\* the state of runInstructionBasedCrawler
crawlerVars == <<slowMode, crawl, crawlResults, successCount, failCount>>

\* process.env and the verdicts of the AI-configuration gate and of callAI
gateVars == <<env, gate>>

vars == <<instruction, url, aiConfig, page, pc, parsed, branch, aiOutcome,
          aiLog, plan, executor, moduleOutcome, invoked, results,
          postProcessor, aiResponse, aiBackend,
          slowMode, crawl, crawlResults, successCount, failCount, env, gate>>

----------------------------------------------------------------------------
(* JavaScript values *)

Null == [null |-> TRUE]

Has(obj, key) == key \in DOMAIN obj

SeqToSet(s) == {s[i] : i \in 1..Len(s)}

Min(S) == CHOOSE m \in S : \A n \in S : m <= n

UpperCase == <<"A","B","C","D","E","F","G","H","I","J","K","L","M","N","O","P","Q","R","S","T","U","V","W","X","Y","Z">>

LowerCase == <<"a","b","c","d","e","f","g","h","i","j","k","l","m","n","o","p","q","r","s","t","u","v","w","x","y","z">>

Digits == <<"0","1","2","3","4","5","6","7","8","9">>

toLowerChar(c) ==
  IF \E i \in 1..Len(UpperCase) : UpperCase[i] = c
  THEN LowerCase[CHOOSE i \in 1..Len(UpperCase) : UpperCase[i] = c]
  ELSE c

toLowerCase(s) == [i \in 1..Len(s) |-> toLowerChar(s[i])]

includes(s, p) ==
  \/ p = <<>>
  \/ \E i \in 1..(Len(s) - Len(p) + 1) :
       s[i] = p[1] /\ SubSeq(s, i, i + Len(p) - 1) = p

----------------------------------------------------------------------------
(* The two regular expressions of the file-name extraction *)

IsQuote(c) == c = "\"" \/ c = "'"

IsWordChar(c) ==
  c \in SeqToSet(UpperCase) \cup SeqToSet(LowerCase) \cup SeqToSet(Digits) \cup {"_"}

WordRunEnd(s, i) ==
  CHOOSE j \in i..Len(s) :
    /\ \A k \in i..j : IsWordChar(s[k])
    /\ (j = Len(s) \/ ~IsWordChar(s[j + 1]))

\* /["']([^"']+)["']/ : the start positions at which the expression matches
QuotedStarts(s) ==
  {i \in 1..Len(s) :
     /\ IsQuote(s[i])
     /\ i + 2 <= Len(s)
     /\ ~IsQuote(s[i + 1])
     /\ \E j \in (i + 2)..Len(s) : IsQuote(s[j])}

QuotedCapture(s) ==
  LET i == Min(QuotedStarts(s))
      j == Min({k \in (i + 2)..Len(s) : IsQuote(s[k])})
  IN  SubSeq(s, i + 1, j - 1)

\* /\b(\w+\.\w+)\b/ : the start positions at which the expression matches
DottedStarts(s) ==
  {i \in 1..Len(s) :
     /\ IsWordChar(s[i])
     /\ (i = 1 \/ ~IsWordChar(s[i - 1]))
     /\ LET e == WordRunEnd(s, i)
        IN  /\ e + 2 <= Len(s)
            /\ s[e + 1] = "."
            /\ IsWordChar(s[e + 2])}

DottedCapture(s) ==
  LET i == Min(DottedStarts(s))
      e == WordRunEnd(s, i)
  IN  SubSeq(s, i, WordRunEnd(s, e + 2))

HasFileMatch(s) == QuotedStarts(s) # {} \/ DottedStarts(s) # {}

fileMatch(s) == IF QuotedStarts(s) # {} THEN QuotedCapture(s) ELSE DottedCapture(s)

----------------------------------------------------------------------------
(* Pattern Classifier: the rule table of quickParseInstruction *)

patterns ==
  <<
    [ patterns |-> << <<"e","x","t","r","a","c","t"," ","c","o","d","e">>, <<"g","e","t"," ","c","o","d","e">>, <<"d","o","w","n","l","o","a","d"," ","c","o","d","e">>, <<"s","c","r","a","p","e"," ","c","o","d","e">>, <<"a","l","l"," ","f","i","l","e","s">>, <<"s","o","u","r","c","e"," ","c","o","d","e">>, <<"r","e","p","o","s","i","t","o","r","y">> >>,
      intent |-> "extract_code",
      targets |-> << "code", "files", "repository" >>,
      confidence |-> 95,
      requireAI |-> FALSE,
      extractFileName |-> FALSE ],
    [ patterns |-> << <<"s","p","e","c","i","f","i","c"," ","f","i","l","e">>, <<"p","a","r","t","i","c","u","l","a","r"," ","f","i","l","e">>, <<"f","i","l","e"," ","n","a","m","e","d">>, <<"g","e","t"," ","f","i","l","e">> >>,
      intent |-> "extract_specific_file",
      targets |-> << "specific_file" >>,
      confidence |-> 90,
      requireAI |-> FALSE,
      extractFileName |-> TRUE ],
    [ patterns |-> << <<"r","e","a","d","m","e">>, <<"d","o","c","u","m","e","n","t","a","t","i","o","n">>, <<"d","o","c","s">>, <<"g","e","t","t","i","n","g"," ","s","t","a","r","t","e","d">> >>,
      intent |-> "extract_documentation",
      targets |-> << "readme", "documentation" >>,
      confidence |-> 95,
      requireAI |-> FALSE,
      extractFileName |-> FALSE ],
    [ patterns |-> << <<"a","r","t","i","c","l","e">>, <<"b","l","o","g"," ","p","o","s","t">>, <<"p","o","s","t"," ","c","o","n","t","e","n","t">>, <<"m","a","i","n"," ","c","o","n","t","e","n","t">>, <<"t","e","x","t"," ","c","o","n","t","e","n","t">> >>,
      intent |-> "extract_article",
      targets |-> << "article", "main_content" >>,
      confidence |-> 95,
      requireAI |-> FALSE,
      extractFileName |-> FALSE ],
    [ patterns |-> << <<"s","u","m","m","a","r","y">>, <<"s","u","m","m","a","r","i","z","e">>, <<"t","l","d","r">>, <<"b","r","i","e","f">>, <<"o","v","e","r","v","i","e","w">> >>,
      intent |-> "extract_summary",
      targets |-> << "summary" >>,
      confidence |-> 95,
      requireAI |-> TRUE,
      extractFileName |-> FALSE ],
    [ patterns |-> << <<"a","l","l"," ","t","e","x","t">>, <<"e","v","e","r","y","t","h","i","n","g">>, <<"f","u","l","l"," ","p","a","g","e">>, <<"e","n","t","i","r","e"," ","p","a","g","e">>, <<"c","o","m","p","l","e","t","e"," ","c","o","n","t","e","n","t">> >>,
      intent |-> "extract_all",
      targets |-> << "all" >>,
      confidence |-> 90,
      requireAI |-> FALSE,
      extractFileName |-> FALSE ],
    [ patterns |-> << <<"p","r","i","c","i","n","g">>, <<"p","r","i","c","e">>, <<"c","o","s","t">>, <<"p","l","a","n","s">>, <<"s","u","b","s","c","r","i","p","t","i","o","n">> >>,
      intent |-> "extract_pricing",
      targets |-> << "pricing", "tables", "plans" >>,
      confidence |-> 95,
      requireAI |-> FALSE,
      extractFileName |-> FALSE ],
    [ patterns |-> << <<"c","o","n","t","a","c","t">>, <<"e","m","a","i","l">>, <<"p","h","o","n","e">>, <<"a","d","d","r","e","s","s">>, <<"c","o","n","t","a","c","t"," ","i","n","f","o">> >>,
      intent |-> "extract_contact",
      targets |-> << "contact_info" >>,
      confidence |-> 95,
      requireAI |-> FALSE,
      extractFileName |-> FALSE ],
    [ patterns |-> << <<"p","r","o","d","u","c","t">>, <<"p","r","o","d","u","c","t"," ","d","e","t","a","i","l","s">>, <<"p","r","o","d","u","c","t"," ","i","n","f","o">>, <<"i","t","e","m"," ","d","e","t","a","i","l","s">> >>,
      intent |-> "extract_product",
      targets |-> << "product", "details", "specifications" >>,
      confidence |-> 90,
      requireAI |-> FALSE,
      extractFileName |-> FALSE ],
    [ patterns |-> << <<"t","a","b","l","e">>, <<"t","a","b","l","e","s">>, <<"d","a","t","a"," ","t","a","b","l","e">>, <<"t","a","b","u","l","a","r"," ","d","a","t","a">> >>,
      intent |-> "extract_tables",
      targets |-> << "tables" >>,
      confidence |-> 95,
      requireAI |-> FALSE,
      extractFileName |-> FALSE ],
    [ patterns |-> << <<"i","m","a","g","e","s">>, <<"p","i","c","t","u","r","e","s">>, <<"p","h","o","t","o","s">>, <<"g","a","l","l","e","r","y">>, <<"i","m","a","g","e"," ","u","r","l","s">> >>,
      intent |-> "extract_images",
      targets |-> << "images" >>,
      confidence |-> 95,
      requireAI |-> FALSE,
      extractFileName |-> FALSE ],
    [ patterns |-> << <<"l","i","n","k","s">>, <<"u","r","l","s">>, <<"a","l","l"," ","l","i","n","k","s">>, <<"h","y","p","e","r","l","i","n","k","s">> >>,
      intent |-> "extract_links",
      targets |-> << "links" >>,
      confidence |-> 95,
      requireAI |-> FALSE,
      extractFileName |-> FALSE ],
    [ patterns |-> << <<"h","e","a","d","i","n","g","s">>, <<"h","e","a","d","e","r","s">>, <<"t","i","t","l","e","s">>, <<"o","u","t","l","i","n","e">>, <<"s","t","r","u","c","t","u","r","e">> >>,
      intent |-> "extract_headings",
      targets |-> << "headings", "structure" >>,
      confidence |-> 95,
      requireAI |-> FALSE,
      extractFileName |-> FALSE ],
    [ patterns |-> << <<"l","i","s","t">>, <<"i","t","e","m","s">>, <<"b","u","l","l","e","t"," ","p","o","i","n","t","s">>, <<"e","n","u","m","e","r","a","t","i","o","n">> >>,
      intent |-> "extract_lists",
      targets |-> << "lists" >>,
      confidence |-> 90,
      requireAI |-> FALSE,
      extractFileName |-> FALSE ],
    [ patterns |-> << <<"c","o","m","m","e","n","t","s">>, <<"d","i","s","c","u","s","s","i","o","n","s">>, <<"u","s","e","r"," ","c","o","m","m","e","n","t","s">> >>,
      intent |-> "extract_comments",
      targets |-> << "comments" >>,
      confidence |-> 90,
      requireAI |-> FALSE,
      extractFileName |-> FALSE ],
    [ patterns |-> << <<"a","p","i">>, <<"a","p","i"," ","d","o","c","u","m","e","n","t","a","t","i","o","n">>, <<"e","n","d","p","o","i","n","t","s">>, <<"a","p","i"," ","r","e","f","e","r","e","n","c","e">> >>,
      intent |-> "extract_api_docs",
      targets |-> << "api", "code", "endpoints" >>,
      confidence |-> 95,
      requireAI |-> FALSE,
      extractFileName |-> FALSE ],
    [ patterns |-> << <<"s","c","h","e","m","a">>, <<"d","a","t","a"," ","m","o","d","e","l">>, <<"d","a","t","a","b","a","s","e"," ","s","c","h","e","m","a">>, <<"s","t","r","u","c","t","u","r","e">> >>,
      intent |-> "extract_schema",
      targets |-> << "schema", "tables", "structure" >>,
      confidence |-> 90,
      requireAI |-> FALSE,
      extractFileName |-> FALSE ],
    [ patterns |-> << <<"a","n","a","l","y","z","e">>, <<"a","n","a","l","y","s","i","s">>, <<"i","n","s","i","g","h","t","s">>, <<"u","n","d","e","r","s","t","a","n","d">> >>,
      intent |-> "analyze_content",
      targets |-> << "all" >>,
      confidence |-> 85,
      requireAI |-> TRUE,
      extractFileName |-> FALSE ],
    [ patterns |-> << <<"e","x","p","l","a","i","n">>, <<"w","h","a","t"," ","i","s">>, <<"d","e","s","c","r","i","b","e">>, <<"t","e","l","l"," ","m","e"," ","a","b","o","u","t">> >>,
      intent |-> "explain_content",
      targets |-> << "all" >>,
      confidence |-> 85,
      requireAI |-> TRUE,
      extractFileName |-> FALSE ]
  >>

ConfidenceThreshold == 80

DefaultConfidence == 50

AIConfidence == 95

RuleMatches(rule, lower) ==
  \E k \in 1..Len(rule.patterns) : includes(lower, rule.patterns[k])

MatchingRules(lower) ==
  {i \in 1..Len(patterns) : RuleMatches(patterns[i], lower)}

MatchResult(pattern, instr) ==
  LET result == [ intent |-> pattern.intent,
                  targets |-> pattern.targets,
                  confidence |-> pattern.confidence,
                  requireAI |-> pattern.requireAI,
                  originalInstruction |-> instr ]
  IN  IF pattern.extractFileName /\ HasFileMatch(instr)
      THEN result @@ ("fileName" :> fileMatch(instr))
      ELSE result

DefaultResultMutant(instr) ==
  [ intent |-> "extract_article",
    targets |-> <<"article">>,
    confidence |-> DefaultConfidence,
    originalInstruction |-> instr ]

DefaultResult(instr) ==
  [ intent |-> "extract_article",
    targets |-> <<"article", "main_content">>,
    confidence |-> DefaultConfidence,
    originalInstruction |-> instr ]

FirstMatchMutant(hits) == CHOOSE m \in hits : \A n \in hits : m >= n

FirstMatch(hits) == Min(hits)

quickParseInstruction(instr) ==
  LET lower == toLowerCase(instr)
      hits == MatchingRules(lower)
  IN  IF hits # {}
      THEN MatchResult(patterns[FirstMatch(hits)], instr)
      ELSE DefaultResult(instr)

----------------------------------------------------------------------------
(* AI Intent Resolver.  The text the backend answers is a sequence of      *)
(* tokens: prose, an opening brace, a closing brace, or one "key": value   *)
(* member of a JSON object.                                                *)

Txt == [t |-> "text", k |-> "", s |-> "", l |-> <<>>, b |-> FALSE]

LB == [t |-> "lb", k |-> "", s |-> "", l |-> <<>>, b |-> FALSE]

RB == [t |-> "rb", k |-> "", s |-> "", l |-> <<>>, b |-> FALSE]

KVs(key, str) == [t |-> "kv", k |-> key, s |-> str, l |-> <<>>, b |-> FALSE]

KVl(key, list) == [t |-> "kv", k |-> key, s |-> "", l |-> list, b |-> FALSE]

KVb(key, bool) == [t |-> "kv", k |-> key, s |-> "", l |-> <<>>, b |-> bool]

Max(S) == CHOOSE m \in S : \A n \in S : m >= n

\* response.match(/\{[\s\S]*\}/): from the first "{" to the last "}" after it
HasJsonMatch(response) ==
  \E i, j \in 1..Len(response) :
    i < j /\ response[i].t = "lb" /\ response[j].t = "rb"

jsonMatchMutant(response) ==
  LET i == Min({n \in 1..Len(response) : response[n].t = "lb"})
      j == Min({n \in (i + 1)..Len(response) : response[n].t = "rb"})
  IN  SubSeq(response, i, j)

jsonMatch(response) ==
  LET i == Min({n \in 1..Len(response) : response[n].t = "lb"})
      j == Max({n \in 1..Len(response) : response[n].t = "rb"})
  IN  SubSeq(response, i, j)

\* JSON.parse accepts the matched text when it is one flat object
JSONParses(text) ==
  \A n \in 2..(Len(text) - 1) : text[n].t = "kv"

\* the members of the parsed object; a repeated key keeps its last value
JSONParse(text) ==
  LET keys == {text[n].k : n \in 2..(Len(text) - 1)}
  IN  [key \in keys |->
         text[Max({n \in 2..(Len(text) - 1) : text[n].k = key})]]

AIResult(obj, instr) ==
  LET result ==
        [ intent |-> IF Has(obj, "intent") /\ obj["intent"].s # ""
                     THEN obj["intent"].s ELSE "extract_all",
          targets |-> IF Has(obj, "targets")
                      THEN obj["targets"].l ELSE <<"all">>,
          requireAI |-> Has(obj, "needsAI") /\ obj["needsAI"].b,
          confidence |-> AIConfidence,
          originalInstruction |-> instr,
          aiParsed |-> TRUE ]
  IN  IF Has(obj, "specifics")
      THEN result @@ ("specifics" :> obj["specifics"].s)
      ELSE result

AISucceedsMutant(outcome) ==
  /\ outcome.kind = "text"
  /\ HasJsonMatch(outcome.response)

\* what the try block of aiParseInstruction does for one outcome of the
\* backend: TRUE when it reaches the return inside the try
AISucceeds(outcome) ==
  /\ outcome.kind = "text"
  /\ HasJsonMatch(outcome.response)
  /\ JSONParses(jsonMatch(outcome.response))

aiParseInstruction(instr, outcome) ==
  IF AISucceeds(outcome)
  THEN AIResult(JSONParse(jsonMatch(outcome.response)), instr)
  ELSE quickParseInstruction(instr)

\* the calls aiParseInstruction makes on the AI collaborator
AICalls(outcome) ==
  IF outcome.kind = "providerThrows"
  THEN <<"getAIProvider">>
  ELSE <<"getAIProvider", "complete">>

----------------------------------------------------------------------------
(* Instruction Parser *)

FastPathMutant(quickParse) == quickParse.confidence > 90

FastPath(quickParse) == quickParse.confidence > ConfidenceThreshold

AIConfigSuppliedMutant(config) == config # Null

AIConfigSupplied(config) == config # Null /\ config.aiProvider # ""

\* the branch parseInstruction takes
ParseBranch(instr, config) ==
  IF FastPath(quickParseInstruction(instr)) THEN "fast"
  ELSE IF AIConfigSupplied(config) THEN "ai"
  ELSE "fallback"

----------------------------------------------------------------------------
(* Plan Builder: createExtractionPlan *)

AddExtractor(extractors, name) ==
  IF name \in SeqToSet(extractors) THEN extractors ELSE Append(extractors, name)

RECURSIVE AddExtractors(_, _)
AddExtractors(extractors, names) ==
  IF names = <<>> THEN extractors
  ELSE AddExtractors(AddExtractor(extractors, Head(names)), Tail(names))

SetOptions(options, flags) ==
  [key \in DOMAIN options \cup flags |->
     IF key \in flags THEN TRUE ELSE options[key]]

AllOptionsMutant ==
  {"includeImages", "includeLinks", "includeTables", "includeCode",
   "includeLists"}

AllOptions ==
  {"includeImages", "includeLinks", "includeTables", "includeCode",
   "includeLists", "includeHeadings"}

TargetExtractorsMutant(target) ==
  IF target = "all" THEN <<"content", "media", "structured">> ELSE <<"content">>

\* the extractor modules one case of the switch adds, in order
TargetExtractors(target) ==
  CASE target \in {"code", "files", "repository"} -> <<"code">>
    [] target \in {"article", "main_content"} -> <<"content">>
    [] target = "images" -> <<"media">>
    [] target = "links" -> <<"content">>
    [] target = "tables" -> <<"content">>
    [] target \in {"headings", "structure"} -> <<"content">>
    [] target = "lists" -> <<"content">>
    [] target \in {"pricing", "plans"} -> <<"content", "structured">>
    [] target = "contact_info" -> <<"structured">>
    [] target \in {"product", "details"} -> <<"structured">>
    [] target \in {"documentation", "readme"} -> <<"documentation">>
    [] target = "all" -> <<"content", "media", "structured">>
    [] OTHER -> <<>>

\* the option flags one case of the switch sets to true
TargetOptions(target) ==
  CASE target \in {"code", "files", "repository"} -> {"includeCode"}
    [] target \in {"article", "main_content"} -> {"includeMainContent"}
    [] target = "images" -> {"includeImages"}
    [] target = "links" -> {"includeLinks"}
    [] target = "tables" -> {"includeTables"}
    [] target \in {"headings", "structure"} -> {"includeHeadings"}
    [] target = "lists" -> {"includeLists"}
    [] target \in {"pricing", "plans"} -> {"includeTables", "includePricing"}
    [] target = "contact_info" -> {"includeContact"}
    [] target \in {"product", "details"} -> {"includeProduct"}
    [] target \in {"documentation", "readme"} -> {"includeDocumentation"}
    [] target = "all" -> AllOptions
    [] OTHER -> {}

ApplyTargetMutant(acc, target) ==
  LET names == IF target = "images" THEN <<"media", "content">>
               ELSE TargetExtractors(target)
      flags == IF target = "images" THEN {"includeImages", "includeLinks"}
               ELSE TargetOptions(target)
  IN  [ extractors |-> AddExtractors(acc.extractors, names),
        options |-> IF target = "all"
                    THEN SetOptions(<<>>, AllOptions)
                    ELSE SetOptions(acc.options, flags) ]

\* one iteration of targets.forEach: "all" assigns a new options object,
\* every other case sets flags on the existing one
ApplyTarget(acc, target) ==
  [ extractors |-> AddExtractors(acc.extractors, TargetExtractors(target)),
    options |-> IF target = "all"
                THEN SetOptions(<<>>, AllOptions)
                ELSE SetOptions(acc.options, TargetOptions(target)) ]

RECURSIVE ApplyTargets(_, _)
ApplyTargets(acc, targets) ==
  IF targets = <<>> THEN acc
  ELSE ApplyTargets(ApplyTarget(acc, Head(targets)), Tail(targets))

createExtractionPlan(parsedInstruction, u) ==
  LET acc == ApplyTargets([extractors |-> <<>>, options |-> <<>>],
                          parsedInstruction.targets)
      options == IF Has(parsedInstruction, "fileName")
                 THEN acc.options @@ ("specificFile" :> parsedInstruction.fileName)
                 ELSE acc.options
      base == [ instruction |-> parsedInstruction.originalInstruction,
                intent |-> parsedInstruction.intent,
                url |-> u,
                steps |-> <<>>,
                extractors |-> acc.extractors,
                options |-> options ]
      withAI == IF Has(parsedInstruction, "requireAI") /\ parsedInstruction.requireAI
                THEN base @@ [requiresAI |-> TRUE, aiTask |-> parsedInstruction.intent]
                ELSE base
  IN  IF Has(parsedInstruction, "specifics") /\ parsedInstruction.specifics # ""
      THEN withAI @@ ("specifics" :> parsedInstruction.specifics)
      ELSE withAI

----------------------------------------------------------------------------
(* Collaborators of the Plan Executor *)

\* new URL(url).hostname.toLowerCase() for an absolute URL scheme://host/path
hostname(u) ==
  LET start == Min({i \in 1..(Len(u) - 2) : SubSeq(u, i, i + 2) = <<":","/","/">>}) + 3
      slashes == {i \in start..Len(u) : u[i] = "/"}
      end == IF slashes = {} THEN Len(u) ELSE Min(slashes) - 1
  IN  toLowerCase(SubSeq(u, start, end))

detectCodePlatform(u) ==
  LET host == hostname(u)
  IN  IF includes(host, <<"g","i","t","h","u","b",".","c","o","m">>) THEN "github"
      ELSE IF includes(host, <<"g","i","t","l","a","b",".","c","o","m">>) THEN "gitlab"
      ELSE IF includes(host, <<"b","i","t","b","u","c","k","e","t",".","o","r","g">>) THEN "bitbucket"
      ELSE IF includes(host, <<"s","t","a","c","k","o","v","e","r","f","l","o","w",".","c","o","m">>)
              \/ includes(host, <<"s","t","a","c","k","e","x","c","h","a","n","g","e",".","c","o","m">>) THEN "stackoverflow"
      ELSE IF includes(host, <<"c","o","d","e","p","e","n",".","i","o">>) THEN "codepen"
      ELSE IF includes(host, <<"j","s","f","i","d","d","l","e",".","n","e","t">>) THEN "jsfiddle"
      ELSE IF includes(host, <<"r","e","p","l","i","t",".","c","o","m">>) THEN "replit"
      ELSE IF includes(host, <<"c","o","d","e","s","a","n","d","b","o","x",".","i","o">>) THEN "codesandbox"
      ELSE IF includes(host, <<"g","i","s","t",".","g","i","t","h","u","b",".","c","o","m">>) THEN "gist"
      ELSE "website"

isCodePlatform(u) == detectCodePlatform(u) # "website"

Flag(options, key) == Has(options, key) /\ options[key] = TRUE

extractContent(p, options) ==
  [ headings |-> p.headings,
    paragraphs |-> p.paragraphs,
    links |-> IF Flag(options, "includeLinks") THEN p.links ELSE <<>>,
    tables |-> IF Flag(options, "includeTables") THEN p.tables ELSE <<>>,
    codeBlocks |-> IF Flag(options, "includeCode") THEN p.codeBlocks ELSE <<>>,
    lists |-> p.lists ]

extractMedia(p, options) ==
  [ images |-> IF Flag(options, "includeImages") THEN p.images ELSE <<>>,
    videos |-> p.videos ]

StructuredKeys(options) ==
  IF ~Flag(options, "includePricing") /\ ~Flag(options, "includeContact")
     /\ ~Flag(options, "includeProduct")
  THEN {"pricing", "contact", "product"}
  ELSE {key \in {"pricing", "contact", "product"} :
          \/ key = "pricing" /\ Flag(options, "includePricing")
          \/ key = "contact" /\ Flag(options, "includeContact")
          \/ key = "product" /\ Flag(options, "includeProduct")}

extractStructuredData(p, options) ==
  [key \in StructuredKeys(options) |-> p[key]]

extractMetadata(p) == p.metadata

\* Array.prototype.join
RECURSIVE join(_, _)
join(list, sep) ==
  IF list = <<>> THEN <<>>
  ELSE IF Len(list) = 1 THEN Head(list)
  ELSE Head(list) \o sep \o join(Tail(list), sep)

----------------------------------------------------------------------------
(* Plan Executor.  A run of the executor carries the data mapping built so *)
(* far, the modules it has started (one console.log line each) and whether *)
(* an exception is propagating out of the function.                        *)

Put(data, key, value) ==
  [k \in DOMAIN data \cup {key} |-> IF k = key THEN value ELSE data[k]]

Run(data, log) == [threw |-> FALSE, data |-> data, log |-> log]

Throw(data, log) == [threw |-> TRUE, data |-> data, log |-> log]

FilterFilesMutant(codeData, specificFile) ==
  [codeData EXCEPT !.files =
     SelectSeq(codeData.files,
               LAMBDA f : f.name # <<>>
                          /\ includes(toLowerCase(f.name),
                                      toLowerCase(specificFile)))]

FilterFiles(codeData, specificFile) ==
  [codeData EXCEPT !.files =
     SelectSeq(codeData.files,
               LAMBDA f : f.name # <<>> /\ includes(f.name, specificFile))]

\* --- the version with a try/catch around every module --------------------

\* plan.options = plan.options || {} ; plan.extractors || [] ; plan.targets || []
NormalizePlan(pl) ==
  IF Has(pl, "targets") THEN pl ELSE pl @@ ("targets" :> <<>>)

CodeModuleRuns(pl) ==
  "code" \in SeqToSet(pl.extractors) \/ isCodePlatform(pl.url)

GuardedCode(p, pl, out, data) ==
  IF CodeModuleRuns(pl) /\ out.code = "ok"
  THEN Put(data, "code",
           IF Has(pl.options, "specificFile")
           THEN FilterFiles(p.code, pl.options["specificFile"])
           ELSE p.code)
  ELSE data

ContentKeys(pl, content) ==
  LET targets == SeqToSet(pl.targets)
      d1 == IF "headings" \in targets
            THEN Put(<<>>, "headings", content.headings) ELSE <<>>
      d2 == IF "links" \in targets THEN Put(d1, "links", content.links) ELSE d1
      d3 == IF "tables" \in targets THEN Put(d2, "tables", content.tables) ELSE d2
      d4 == IF "lists" \in targets THEN Put(d3, "lists", content.lists) ELSE d3
      d5 == IF "article" \in targets \/ "main_content" \in targets
            THEN Put(Put(d4, "paragraphs", content.paragraphs),
                     "textContent", join(content.paragraphs, <<"\n","\n">>))
            ELSE d4
  IN  IF "all" \in targets THEN Put(d5, "content", content) ELSE d5

GuardedContentKeys(pl, content) ==
  LET d == ContentKeys(pl, content)
  IN  IF "pricing" \in SeqToSet(pl.targets) \/ "plans" \in SeqToSet(pl.targets)
      THEN Put(Put(d, "tables", content.tables), "paragraphs", content.paragraphs)
      ELSE d

GuardedContent(p, pl, out, data) ==
  IF "content" \in SeqToSet(pl.extractors) /\ out.content = "ok"
  THEN GuardedContentKeys(pl, extractContent(p, pl.options)) @@ data
  ELSE data

MediaKeysMutant(media) ==
  [images |-> media.images, structured |-> media.videos]

MediaKeys(media) == [images |-> media.images, videos |-> media.videos]

GuardedMedia(p, pl, out, data) ==
  IF "media" \in SeqToSet(pl.extractors) /\ out.media = "ok"
  THEN MediaKeys(extractMedia(p, pl.options)) @@ data
  ELSE data

StructuredDataMutant(pl, structured) ==
  Put([key \in {k \in {"pricing", "contact", "product"} :
                  \/ k = "pricing" /\ Flag(pl.options, "includePricing")
                  \/ k = "contact" /\ Flag(pl.options, "includeContact")
                  \/ k = "product" /\ Flag(pl.options, "includeProduct")}
         |-> structured[key]],
      "structured", structured)

StructuredData(pl, structured) ==
  IF ~Flag(pl.options, "includePricing") /\ ~Flag(pl.options, "includeContact")
     /\ ~Flag(pl.options, "includeProduct")
  THEN Put(<<>>, "structured", structured)
  ELSE [key \in {k \in {"pricing", "contact", "product"} :
                   \/ k = "pricing" /\ Flag(pl.options, "includePricing")
                   \/ k = "contact" /\ Flag(pl.options, "includeContact")
                   \/ k = "product" /\ Flag(pl.options, "includeProduct")}
          |-> structured[key]]

GuardedStructured(p, pl, out, data) ==
  IF "structured" \in SeqToSet(pl.extractors) /\ out.structured = "ok"
  THEN StructuredData(pl, extractStructuredData(p, pl.options)) @@ data
  ELSE data

MetadataError == [error |-> "metadata extraction failed"]

GuardedMetadata(p, out, data) ==
  IF out.metadata = "ok"
  THEN Put(data, "metadata", extractMetadata(p))
  ELSE Put(data, "metadata", MetadataError)

NewResultsMutant(pl, data) ==
  [ instruction |-> pl.instruction,
    intent |-> pl.intent,
    url |-> pl.url,
    extractedAt |-> "now",
    status |-> "success",
    data |-> data ]

NewResults(pl, data) ==
  [ instruction |-> pl.instruction,
    intent |-> pl.intent,
    url |-> pl.url,
    extractedAt |-> "now",
    data |-> data ]

GuardedLog(pl) ==
  (IF CodeModuleRuns(pl) THEN <<"code">> ELSE <<>>)
  \o SelectSeq(<<"content", "media", "structured">>,
               LAMBDA module : module \in SeqToSet(pl.extractors))
  \o <<"metadata">>

executeExtractionPlan(p, pl0, out) ==
  LET pl == NormalizePlan(pl0)
      d1 == GuardedCode(p, pl, out, <<>>)
      d2 == GuardedContent(p, pl, out, d1)
      d3 == GuardedMedia(p, pl, out, d2)
      d4 == GuardedStructured(p, pl, out, d3)
  IN  Run(GuardedMetadata(p, out, d4), GuardedLog(pl))

\* --- the version without them ---------------------------------------------

PlainCode(p, pl, out, run) ==
  IF run.threw \/ ~CodeModuleRuns(pl) THEN run
  ELSE LET log == Append(run.log, "code")
       IN  IF out.code = "ok"
           THEN Run(Put(run.data, "code",
                        IF Has(pl.options, "specificFile")
                        THEN FilterFiles(p.code, pl.options["specificFile"])
                        ELSE p.code), log)
           ELSE IF Has(pl.options, "specificFile") THEN Throw(run.data, log)
           ELSE Run(Put(run.data, "code", Null), log)

PlainContent(p, pl, out, run) ==
  IF run.threw \/ "content" \notin SeqToSet(pl.extractors) THEN run
  ELSE LET log == Append(run.log, "content")
       IN  IF out.content # "ok" \/ ~Has(pl, "targets")
           THEN Throw(run.data, log)
           ELSE Run(ContentKeys(pl, extractContent(p, pl.options)) @@ run.data,
                    log)

PlainMedia(p, pl, out, run) ==
  IF run.threw \/ "media" \notin SeqToSet(pl.extractors) THEN run
  ELSE LET log == Append(run.log, "media")
       IN  IF out.media # "ok" THEN Throw(run.data, log)
           ELSE Run(MediaKeys(extractMedia(p, pl.options)) @@ run.data, log)

PlainStructured(p, pl, out, run) ==
  IF run.threw \/ "structured" \notin SeqToSet(pl.extractors) THEN run
  ELSE LET log == Append(run.log, "structured")
       IN  IF out.structured # "ok" THEN Throw(run.data, log)
           ELSE Run(StructuredData(pl, extractStructuredData(p, pl.options))
                      @@ run.data, log)

PlainMetadata(p, out, run) ==
  IF run.threw THEN run
  ELSE LET log == Append(run.log, "metadata")
       IN  IF out.metadata # "ok" THEN Throw(run.data, log)
           ELSE Run(Put(run.data, "metadata", extractMetadata(p)), log)

executeExtractionPlanPlain(p, pl, out) ==
  PlainMetadata(p, out,
    PlainStructured(p, pl, out,
      PlainMedia(p, pl, out,
        PlainContent(p, pl, out,
          PlainCode(p, pl, out, Run(<<>>, <<>>))))))

----------------------------------------------------------------------------
(* AI Post-Processor: postProcessWithAI *)

RequiresAI(pl) == Has(pl, "requiresAI") /\ pl.requiresAI

PostProcessSkipsMutant(pl, config) == ~RequiresAI(pl) \/ config = Null

\* if (!plan.requiresAI || !aiConfig || !aiConfig.aiProvider) return results
PostProcessSkips(pl, config) ==
  ~RequiresAI(pl) \/ config = Null \/ config.aiProvider = ""

\* the prompt the switch on plan.aiTask selects
PromptTemplate(pl) ==
  CASE pl.aiTask = "extract_summary" -> "summarize"
    [] pl.aiTask = "analyze_content" -> "analyze"
    [] pl.aiTask = "explain_content" -> "explain"
    [] OTHER -> "process"

\* the call postProcessWithAI makes on the AI backend
CallAI(pl, config) ==
  [ prompt |-> PromptTemplate(pl),
    provider |-> config.aiProvider,
    model |-> config.aiModel,
    maxTokens |-> 1000 ]

\* results.aiProcessing in the try block and in the catch block
AIProcessing(pl, outcome) ==
  IF outcome.kind = "ok"
  THEN [ task |-> pl.aiTask,
         response |-> outcome.content,
         provider |-> outcome.provider,
         model |-> outcome.model,
         timestamp |-> "now" ]
  ELSE [ task |-> pl.aiTask, error |-> outcome.message ]

Skipped(res) == [threw |-> FALSE, results |-> res, calls |-> <<>>]

Processed(res, pl, config, outcome) ==
  [ threw |-> FALSE,
    results |-> Put(res, "aiProcessing", AIProcessing(pl, outcome)),
    calls |-> <<CallAI(pl, config)>> ]

postProcessWithAI(res, pl, config, outcome) ==
  IF PostProcessSkips(pl, config)
  THEN Skipped(res)
  ELSE Processed(res, pl, config, outcome)

\* the version whose guard is !plan.requiresAI || !aiConfig.aiProvider:
\* reading aiProvider of a null aiConfig is a TypeError
postProcessWithAIPlain(res, pl, config, outcome) ==
  IF ~RequiresAI(pl) THEN Skipped(res)
  ELSE IF config = Null THEN [threw |-> TRUE, results |-> res, calls |-> <<>>]
  ELSE IF config.aiProvider = "" THEN Skipped(res)
  ELSE Processed(res, pl, config, outcome)

----------------------------------------------------------------------------
(* Inputs *)

MaxTargets == 2

Instructions ==
  { <<"G","e","t"," ","a","l","l"," ","p","r","i","c","i","n","g"," ","i","n","f","o","r","m","a","t","i","o","n">>,
    <<"q","w","e","r","t","y"," ","z","z","z">>,
    <<>>,
    <<"s","h","o","w"," ","m","e"," ","t","h","e"," ","i","m","a","g","e","s">>,
    <<"e","v","e","r","y","t","h","i","n","g">>,
    <<"E","x","p","l","a","i","n"," ","t","h","i","s"," ","p","a","g","e">>,
    <<"P","R","I","C","I","N","G">>,
    <<"l","i","s","t"," ","t","h","e"," ","i","t","e","m","s">>,
    <<"g","e","t"," ","f","i","l","e"," ","n","a","m","e","d"," ","\"","m","a","i","n",".","p","y","\"">>,
    <<"t","h","e"," ","f","i","l","e"," ","n","a","m","e","d"," ","c","o","n","f","i","g",".","j","s","o","n"," ","i","n"," ","t","h","e"," ","r","e","p","o","s","i","t","o","r","y">>,
    <<"c","o","n","t","a","c","t"," ","e","m","a","i","l"," ","a","n","d"," ","p","r","i","c","i","n","g">>,
    <<"c","o","n","t","a","c","t"," ","d","e","t","a","i","l","s">>,
    <<"t","l","d","r">>,
    <<"d","o","c","s">> }

URLs == { <<"h","t","t","p","s",":","/","/","e","x","a","m","p","l","e",".","c","o","m","/","p","r","i","c","i","n","g">>, <<"h","t","t","p","s",":","/","/","G","i","t","H","u","b",".","c","o","m","/","o","w","n","e","r","/","r","e","p","o">> }

AIConfigs ==
  { Null,
    [aiProvider |-> "", aiApiKey |-> "", aiModel |-> ""],
    [aiProvider |-> "groq", aiApiKey |-> "key", aiModel |-> ""],
    [aiProvider |-> "ollama", aiApiKey |-> "", aiModel |-> "llama3"] }

Pages ==
  { [ headings |-> << <<"P","l","a","n","s">> >>,
      paragraphs |-> << <<"P","r","o"," ","p","l","a","n"," ","c","o","s","t","s"," ","$","1","0">>, <<"T","e","a","m"," ","p","l","a","n"," ","c","o","s","t","s"," ","$","2","0">> >>,
      links |-> << <<"h","t","t","p","s",":","/","/","e","x","a","m","p","l","e",".","c","o","m","/","a">> >>,
      tables |-> << <<"p","l","a","n","|","p","r","i","c","e">> >>,
      codeBlocks |-> << <<"n","p","m"," ","i","n","s","t","a","l","l">> >>,
      lists |-> << <<"o","n","e",",","t","w","o">> >>,
      images |-> << <<"l","o","g","o",".","p","n","g">> >>,
      videos |-> << <<"i","n","t","r","o",".","m","p","4">> >>,
      pricing |-> << <<"$","1","0">>, <<"$","2","0">> >>,
      contact |-> [emails |-> << <<"a","@","e","x","a","m","p","l","e",".","c","o","m">> >>],
      product |-> [name |-> <<"P","r","o">>],
      metadata |-> [title |-> <<"P","r","i","c","i","n","g">>],
      code |-> [ name |-> <<"r","e","p","o">>,
                 files |-> << [name |-> <<"m","a","i","n",".","p","y">>],
                              [name |-> <<"R","E","A","D","M","E",".","m","d">>],
                              [name |-> <<"c","o","n","f","i","g",".","j","s","o","n">>],
                              [name |-> <<"M","A","I","N",".","P","Y">>] >> ] ] }

TargetVocabulary == {"all", "images", "pricing", "videos"}

RECURSIVE SeqsUpTo(_, _)
SeqsUpTo(S, n) ==
  IF n = 0 THEN {<<>>}
  ELSE LET shorter == SeqsUpTo(S, n - 1)
       IN  shorter \cup {Append(s, x) : s \in shorter, x \in S}

AITargetLists == SeqsUpTo(TargetVocabulary, MaxTargets)

AIResponses ==
  { <<Txt>>,
    <<>>,
    <<RB, Txt, LB>>,
    <<LB, KVs("intent", "extract_images")>>,
    <<LB, Txt, RB>>,
    <<LB, RB>>,
    <<LB, KVs("intent", "extract_links"), RB, Txt, LB, RB>>,
    <<Txt, LB, KVs("intent", "extract_summary"), KVs("specifics", "only the intro"),
      KVb("needsAI", TRUE), RB, Txt>>,
    <<LB, KVs("intent", "extract_code"), KVs("intent", ""), RB>> }
  \cup
  { <<Txt, LB, KVs("intent", "extract_custom"), KVl("targets", list),
      KVb("needsAI", FALSE), RB>> : list \in AITargetLists }

AIOutcomes ==
  { [kind |-> "providerThrows", response |-> <<>>],
    [kind |-> "completeRejects", response |-> <<>>],
    [kind |-> "notAString", response |-> <<>>] }
  \cup
  { [kind |-> "text", response |-> response] : response \in AIResponses }

ModuleOutcomes ==
  [ code : {"ok", "null", "throws"},
    content : {"ok", "throws"},
    media : {"ok", "throws"},
    structured : {"ok", "throws"},
    metadata : {"ok", "throws"} ]

\* the outcomes of the modules a plan invokes; a module that is not invoked
\* has no outcome and is left at "ok"
OutcomesFor(pl) ==
  [ code : IF CodeModuleRuns(pl) THEN {"ok", "null", "throws"} ELSE {"ok"},
    content : IF "content" \in SeqToSet(pl.extractors)
              THEN {"ok", "throws"} ELSE {"ok"},
    media : IF "media" \in SeqToSet(pl.extractors)
            THEN {"ok", "throws"} ELSE {"ok"},
    structured : IF "structured" \in SeqToSet(pl.extractors)
                 THEN {"ok", "throws"} ELSE {"ok"},
    metadata : {"ok", "throws"} ]

----------------------------------------------------------------------------
(* The pipeline of one request: parse, plan, execute *)

Init ==
  /\ instruction \in Instructions
  /\ url \in URLs
  /\ aiConfig \in AIConfigs
  /\ page \in Pages
  /\ pc = "start"
  /\ parsed = Null
  /\ branch = "none"
  /\ aiOutcome = Null
  /\ aiLog = <<>>
  /\ plan = Null
  /\ executor = "none"
  /\ moduleOutcome = Null
  /\ invoked = <<>>
  /\ results = Null
  /\ postProcessor = "none"
  /\ aiResponse = Null
  /\ aiBackend = <<>>
  /\ slowMode = FALSE
  /\ crawl = <<>>
  /\ crawlResults = <<>>
  /\ successCount = 0
  /\ failCount = 0
  /\ env = {}
  /\ gate = Null

ParseInstruction ==
  /\ pc = "start"
  /\ \E outcome \in AIOutcomes :
       LET taken == ParseBranch(instruction, aiConfig)
       IN  /\ branch' = taken
           /\ IF taken = "ai"
              THEN /\ parsed' = aiParseInstruction(instruction, outcome)
                   /\ aiOutcome' = outcome
                   /\ aiLog' = aiLog \o AICalls(outcome)
              ELSE /\ parsed' = quickParseInstruction(instruction)
                   /\ UNCHANGED <<aiOutcome, aiLog>>
  /\ pc' = "parsed"
  /\ UNCHANGED <<instruction, url, aiConfig, page, plan, executor,
                 moduleOutcome, invoked, results>>
  /\ UNCHANGED <<postVars, crawlerVars, gateVars>>

CreateExtractionPlan ==
  /\ pc = "parsed"
  /\ plan' = createExtractionPlan(parsed, url)
  /\ pc' = "planned"
  /\ UNCHANGED <<instruction, url, aiConfig, page, parsed, branch, aiOutcome,
                 aiLog, executor, moduleOutcome, invoked, results>>
  /\ UNCHANGED <<postVars, crawlerVars, gateVars>>

ExecuteExtractionPlan ==
  /\ pc = "planned"
  /\ \E out \in OutcomesFor(plan) :
       LET run == executeExtractionPlan(page, plan, out)
       IN  /\ moduleOutcome' = out
           /\ invoked' = run.log
           /\ plan' = NormalizePlan(plan)
           /\ results' = IF run.threw THEN Null ELSE NewResults(plan, run.data)
           /\ pc' = IF run.threw THEN "threw" ELSE "executed"
  /\ executor' = "guarded"
  /\ UNCHANGED <<instruction, url, aiConfig, page, parsed, branch, aiOutcome,
                 aiLog>>
  /\ UNCHANGED <<postVars, crawlerVars, gateVars>>

ExecuteExtractionPlanPlain ==
  /\ pc = "planned"
  /\ \E out \in {o \in OutcomesFor(plan) : o.code # "throws"} :
       LET run == executeExtractionPlanPlain(page, plan, out)
       IN  /\ moduleOutcome' = out
           /\ invoked' = run.log
           /\ results' = IF run.threw THEN Null ELSE NewResults(plan, run.data)
           /\ pc' = IF run.threw THEN "threw" ELSE "executed"
  /\ executor' = "plain"
  /\ UNCHANGED <<instruction, url, aiConfig, page, parsed, branch, aiOutcome,
                 aiLog, plan>>
  /\ UNCHANGED <<postVars, crawlerVars, gateVars>>

Next ==
  \/ ParseInstruction
  \/ CreateExtractionPlan
  \/ ExecuteExtractionPlan
  \/ ExecuteExtractionPlanPlain

Spec == Init /\ [][Next]_vars

----------------------------------------------------------------------------
(* postProcessWithAI applied to the result of one request *)

AllOk ==
  [code |-> "ok", content |-> "ok", media |-> "ok", structured |-> "ok",
   metadata |-> "ok"]

\* what the backend does with one call
CallAIOutcomes ==
  { [kind |-> "ok", content |-> "a short summary", provider |-> "groq",
     model |-> "llama-3.3-70b-versatile", message |-> ""],
    [kind |-> "throws", content |-> "", provider |-> "", model |-> "",
     message |-> "API key not found"] }

\* the result executeExtractionPlan returned for the plan of the request
ExecutedResults ==
  NewResults(plan, executeExtractionPlan(page, plan, moduleOutcome).data)

\* the state in which executeExtractionPlan has just returned, for an
\* instruction that was parsed without the AI resolver
InitPost ==
  /\ instruction \in Instructions
  /\ url \in URLs
  /\ aiConfig \in AIConfigs
  /\ page \in Pages
  /\ ParseBranch(instruction, aiConfig) # "ai"
  /\ branch = ParseBranch(instruction, aiConfig)
  /\ parsed = quickParseInstruction(instruction)
  /\ aiOutcome = Null
  /\ aiLog = <<>>
  /\ plan = NormalizePlan(createExtractionPlan(parsed, url))
  /\ executor = "guarded"
  /\ moduleOutcome = AllOk
  /\ invoked = GuardedLog(plan)
  /\ results = ExecutedResults
  /\ pc = "executed"
  /\ postProcessor = "none"
  /\ aiResponse = Null
  /\ aiBackend = <<>>
  /\ slowMode = FALSE
  /\ crawl = <<>>
  /\ crawlResults = <<>>
  /\ successCount = 0
  /\ failCount = 0
  /\ env = {}
  /\ gate = Null

PostProcessWithAI ==
  /\ pc = "executed"
  /\ \E outcome \in CallAIOutcomes :
       LET run == postProcessWithAI(results, plan, aiConfig, outcome)
       IN  /\ results' = run.results
           /\ aiBackend' = aiBackend \o run.calls
           /\ aiResponse' = IF run.calls = <<>> THEN Null ELSE outcome
           /\ pc' = IF run.threw THEN "postThrew" ELSE "processed"
  /\ postProcessor' = "guarded"
  /\ UNCHANGED <<instruction, url, aiConfig, page, parsed, branch, aiOutcome,
                 aiLog, plan, executor, moduleOutcome, invoked>>
  /\ UNCHANGED <<crawlerVars, gateVars>>

PostProcessWithAIPlain ==
  /\ pc = "executed"
  /\ \E outcome \in CallAIOutcomes :
       LET run == postProcessWithAIPlain(results, plan, aiConfig, outcome)
       IN  /\ results' = run.results
           /\ aiBackend' = aiBackend \o run.calls
           /\ aiResponse' = IF run.calls = <<>> THEN Null ELSE outcome
           /\ pc' = IF run.threw THEN "postThrew" ELSE "processed"
  /\ postProcessor' = "plain"
  /\ UNCHANGED <<instruction, url, aiConfig, page, parsed, branch, aiOutcome,
                 aiLog, plan, executor, moduleOutcome, invoked>>
  /\ UNCHANGED <<crawlerVars, gateVars>>

NextPost ==
  \/ PostProcessWithAI
  \/ PostProcessWithAIPlain

SpecPost == InitPost /\ [][NextPost]_vars

----------------------------------------------------------------------------
(* runInstructionBasedCrawler: one crawl of a batch of URLs.  The crawl    *)
(* engine starts at most maxConcurrency request handlers; a handler gives  *)
(* up control at each await, where the others may run.                     *)

providersNeedingKey ==
  {"openai", "anthropic", "google", "groq", "huggingface", "together"}

isAIConfiguredMutant(aiProvider, aiApiKey) ==
  aiProvider = "ollama" \/ aiProvider \in providersNeedingKey

isAIConfigured(aiProvider, aiApiKey) ==
  IF aiProvider = "" THEN FALSE
  ELSE IF aiProvider = "ollama" THEN TRUE
  ELSE IF aiProvider \in providersNeedingKey THEN aiApiKey # ""
  ELSE FALSE

MaxRetries == 1

\* the batch of the crawl
urls == << <<"h","t","t","p","s",":","/","/","a",".","i","o","/","1">>, <<"h","t","t","p","s",":","/","/","a",".","i","o","/","2">>, <<"h","t","t","p","s",":","/","/","a",".","i","o","/","3">> >>

CrawlInstructions == { <<"E","x","p","l","a","i","n"," ","t","h","i","s"," ","p","a","g","e">>, <<"s","h","o","w"," ","m","e"," ","t","h","e"," ","i","m","a","g","e","s">> }

CrawlConfigs ==
  { [aiProvider |-> "groq", aiApiKey |-> "key", aiModel |-> ""],
    [aiProvider |-> "groq", aiApiKey |-> "", aiModel |-> ""] }

maxConcurrency == IF slowMode THEN 1 ELSE 3

\* the requests whose handler has started and not yet finished
Active == {i \in DOMAIN crawl : crawl[i].pc \notin {"queued", "done"}}

At(i, position) == crawl' = [crawl EXCEPT ![i].pc = position]

\* the messages of the errors a request can meet
PageError == "page timed out"

ExtractionError == "extraction failed"

DatasetError == "dataset unavailable"

\* the request is finished; error is the message of its failed record
Done(i, message) ==
  crawl' = [crawl EXCEPT ![i] = [pc |-> "done", attempts |-> 0,
                                 error |-> message, aiProcessing |-> Null]]

\* control enters the catch block of requestHandler with the error thrown
Caught(i, message) ==
  crawl' = [crawl EXCEPT ![i].pc = "catch", ![i].error = message]

\* the state after parseInstruction has returned and crawler.run has been
\* given the requests; the instructions are parsed without the AI resolver
InitCrawler ==
  /\ instruction \in CrawlInstructions
  /\ aiConfig \in CrawlConfigs
  /\ slowMode \in BOOLEAN
  /\ page = Null
  /\ url = urls[1]
  /\ branch = ParseBranch(instruction,
                          IF isAIConfigured(aiConfig.aiProvider, aiConfig.aiApiKey)
                          THEN aiConfig ELSE Null)
  /\ branch # "ai"
  /\ parsed = quickParseInstruction(instruction)
  /\ aiOutcome = Null
  /\ aiLog = <<>>
  /\ plan = Null
  /\ executor = "none"
  /\ moduleOutcome = Null
  /\ invoked = <<>>
  /\ results = Null
  /\ postProcessor = "none"
  /\ aiResponse = Null
  /\ aiBackend = <<>>
  /\ pc = "crawling"
  /\ crawl = [i \in DOMAIN urls |-> [pc |-> "queued", attempts |-> 0, error |-> "",
                              aiProcessing |-> Null]]
  /\ crawlResults = <<>>
  /\ successCount = 0
  /\ failCount = 0
  /\ env = {}
  /\ gate = Null

\* the result the handler pushes after result.status = "success"
SuccessRecord(i) ==
  LET record == [url |-> urls[i], status |-> "success", extractedAt |-> "now"]
  IN  IF crawl[i].aiProcessing = Null THEN record
      ELSE record @@ [aiProcessing |-> crawl[i].aiProcessing]

FailedRecordMutant(i, message) ==
  [url |-> urls[i], status |-> "failed", timestamp |-> "now",
   error |-> "unknown error"]

FailedRecord(i, message) ==
  [url |-> urls[i], status |-> "failed", timestamp |-> "now",
   error |-> message]

failedRequestHandlerMutant(i, message) ==
  /\ crawlResults' = Append(crawlResults, FailedRecord(i, message))
  /\ Done(i, message)
  /\ UNCHANGED <<successCount, failCount>>

\* failedRequestHandler: failCount++ ; results.push({..., status: "failed"})
failedRequestHandler(i, message) ==
  /\ failCount' = failCount + 1
  /\ crawlResults' = Append(crawlResults, FailedRecord(i, message))
  /\ Done(i, message)
  /\ UNCHANGED successCount

\* what the engine does with a request whose navigation failed or whose
\* handler rejected: it runs the request again, and after the last retry it
\* calls failedRequestHandler
RequestFailed(i, message) ==
  IF crawl[i].attempts < MaxRetries
  THEN /\ crawl' = [crawl EXCEPT ![i] = [pc |-> "queued",
                                         attempts |-> crawl[i].attempts + 1,
                                         error |-> message,
                                         aiProcessing |-> Null]]
       /\ UNCHANGED <<crawlResults, successCount, failCount>>
  ELSE failedRequestHandler(i, message)

frame == <<instruction, url, aiConfig, page, pc, parsed, branch, aiOutcome,
           aiLog, plan, executor, moduleOutcome, invoked, results, postVars,
           slowMode, gateVars>>

\* the engine takes a queued request when a handler slot is free, runs the
\* pre-navigation hook and loads the page
Navigate ==
  \E i \in DOMAIN crawl :
    /\ crawl[i].pc = "queued"
    /\ Cardinality(Active) < maxConcurrency
    /\ \E loaded \in BOOLEAN :
         IF loaded
         THEN /\ crawl' = [crawl EXCEPT ![i].pc = "prepare", ![i].error = ""]
              /\ UNCHANGED <<crawlResults, successCount, failCount>>
         ELSE RequestFailed(i, PageError)
    /\ UNCHANGED frame

\* requestHandler, the awaits before the plan is built: waitForLoadState,
\* waitForTimeout, autoScroll, dismissCookieBanners, page.evaluate
Prepare ==
  \E i \in DOMAIN crawl :
    /\ crawl[i].pc = "prepare"
    /\ \E threw \in BOOLEAN :
         IF threw THEN Caught(i, PageError) ELSE At(i, "extract")
    /\ UNCHANGED <<crawlResults, successCount, failCount>>
    /\ UNCHANGED frame

\* createExtractionPlan, await executeExtractionPlan, and the test that
\* decides whether postProcessWithAI is called
Extract ==
  \E i \in DOMAIN crawl :
    /\ crawl[i].pc = "extract"
    /\ \E threw \in BOOLEAN :
         LET pl == createExtractionPlan(parsed, urls[i])
         IN  IF threw THEN Caught(i, ExtractionError)
             ELSE IF /\ RequiresAI(pl)
                     /\ isAIConfigured(aiConfig.aiProvider, aiConfig.aiApiKey)
                  THEN At(i, "postProcess")
                  ELSE At(i, "save")
    /\ UNCHANGED <<crawlResults, successCount, failCount>>
    /\ UNCHANGED frame

\* await postProcessWithAI, which returns for every aiConfig object; then
\* result.status = "success" and the call of Dataset.pushData(result)
PostProcess ==
  \E i \in DOMAIN crawl :
    /\ crawl[i].pc = "postProcess"
    /\ \E outcome \in CallAIOutcomes :
         LET pl == createExtractionPlan(parsed, urls[i])
             run == postProcessWithAI(NewResults(pl, <<>>), pl, aiConfig, outcome)
         IN  crawl' = [crawl EXCEPT
                         ![i].pc = "save",
                         ![i].aiProcessing =
                           IF Has(run.results, "aiProcessing")
                           THEN [task |-> run.results.aiProcessing.task]
                           ELSE Null]
    /\ UNCHANGED <<crawlResults, successCount, failCount>>
    /\ UNCHANGED frame

\* await Dataset.pushData(result) ; results.push(result) ; successCount++
Save ==
  \E i \in DOMAIN crawl :
    /\ crawl[i].pc = "save"
    /\ \E threw \in BOOLEAN :
         IF threw
         THEN /\ Caught(i, DatasetError)
              /\ UNCHANGED <<crawlResults, successCount, failCount>>
         ELSE /\ crawlResults' = Append(crawlResults, SuccessRecord(i))
              /\ successCount' = successCount + 1
              /\ Done(i, "")
              /\ UNCHANGED failCount
    /\ UNCHANGED frame

\* the catch block: await Dataset.pushData(failedResult) ;
\* results.push(failedResult) ; failCount++ .  When pushData rejects, the
\* handler rejects and the engine takes the request back
Catch ==
  \E i \in DOMAIN crawl :
    /\ crawl[i].pc = "catch"
    /\ \E threw \in BOOLEAN :
         IF threw
         THEN RequestFailed(i, DatasetError)
         ELSE /\ crawlResults' = Append(crawlResults,
                                       FailedRecord(i, crawl[i].error))
              /\ failCount' = failCount + 1
              /\ Done(i, crawl[i].error)
              /\ UNCHANGED successCount
    /\ UNCHANGED frame

NextCrawler ==
  \/ Navigate
  \/ Prepare
  \/ Extract
  \/ PostProcess
  \/ Save
  \/ Catch

SpecCrawler == InitCrawler /\ [][NextCrawler]_vars

----------------------------------------------------------------------------
(* The AI-configuration gate (ai/index.js) and the provider table of the   *)
(* AI backend (ai/providers.js)                                            *)

\* const PROVIDERS: the display name and the environment variable of the key
PROVIDERS ==
  [ groq |-> [name |-> "Groq", keyEnv |-> "GROQ_API_KEY"],
    gemini |-> [name |-> "Google Gemini", keyEnv |-> "GEMINI_API_KEY"],
    huggingface |-> [name |-> "Hugging Face", keyEnv |-> "HUGGINGFACE_API_KEY"],
    together |-> [name |-> "Together AI", keyEnv |-> "TOGETHER_API_KEY"],
    cohere |-> [name |-> "Cohere", keyEnv |-> "COHERE_API_KEY"],
    ollama |-> [name |-> "Ollama (Local)", keyEnv |-> ""] ]

\* the provider names given to the gate and to the backend
ProviderNames ==
  {"", "openai", "anthropic", "google", "groq", "huggingface", "together",
   "ollama", "gemini", "cohere", "Groq", "mistral"}

\* provider.toLowerCase() on the names of ProviderNames
LowerCaseName(provider) == IF provider = "Groq" THEN "groq" ELSE provider

\* callAI up to its switch: what becomes of a call for the provider under
\* the environment variables that are set
callAI(provider, environment) ==
  LET key == LowerCaseName(provider)
  IN  IF key \notin DOMAIN PROVIDERS
      THEN [kind |-> "throws", message |-> "Unknown provider"]
      ELSE IF /\ PROVIDERS[key].keyEnv # ""
              /\ PROVIDERS[key].keyEnv \notin environment
              /\ provider # "ollama"
      THEN [kind |-> "throws", message |-> "API key not found"]
      ELSE [kind |-> "dispatched", message |-> key]

Environments == SUBSET {"GROQ_API_KEY", "GEMINI_API_KEY"}

GateConfigs ==
  [aiProvider : ProviderNames, aiApiKey : {"", "key"}, aiModel : {""}]

InitGate ==
  /\ aiConfig \in GateConfigs
  /\ env \in Environments
  /\ gate = Null
  /\ pc = "gate"
  /\ instruction = <<>>
  /\ url = <<>>
  /\ page = Null
  /\ parsed = Null
  /\ branch = "none"
  /\ aiOutcome = Null
  /\ aiLog = <<>>
  /\ plan = Null
  /\ executor = "none"
  /\ moduleOutcome = Null
  /\ invoked = <<>>
  /\ results = Null
  /\ postProcessor = "none"
  /\ aiResponse = Null
  /\ aiBackend = <<>>
  /\ slowMode = FALSE
  /\ crawl = <<>>
  /\ crawlResults = <<>>
  /\ successCount = 0
  /\ failCount = 0

gateFrame == <<instruction, url, aiConfig, page, parsed, branch, aiOutcome,
               aiLog, plan, executor, moduleOutcome, invoked, results,
               postVars, crawlerVars, env>>

\* isAIConfigured(aiProvider, aiApiKey), as runInstructionBasedCrawler asks
GateIsAIConfigured ==
  /\ pc = "gate"
  /\ gate' = [admitted |-> isAIConfigured(aiConfig.aiProvider, aiConfig.aiApiKey),
              call |-> Null]
  /\ pc' = "gated"
  /\ UNCHANGED gateFrame

\* callAI(prompt, {provider: aiConfig.aiProvider, ...})
BackendCallAI ==
  /\ pc = "gated"
  /\ gate' = [gate EXCEPT !.call = callAI(aiConfig.aiProvider, env)]
  /\ pc' = "called"
  /\ UNCHANGED gateFrame

NextGate ==
  \/ GateIsAIConfigured
  \/ BackendCallAI

SpecGate == InitGate /\ [][NextGate]_vars

----------------------------------------------------------------------------
(* Properties *)

MatchesSomePattern(instr) ==
  LET lower == toLowerCase(instr)
  IN  \E i \in 1..Len(patterns) :
        \E k \in 1..Len(patterns[i].patterns) :
          includes(lower, patterns[i].patterns[k])

Started == pc # "start"

Planned == pc \notin {"start", "parsed"}

Finished == pc \in {"executed", "threw"}

\* C1: an instruction that contains a pattern of some rule is parsed with
\* confidence above 0.8 and without any call on the AI collaborator, whatever
\* aiConfig holds.
FastPathNeverInvokesAI ==
  (Started /\ MatchesSomePattern(instruction)) =>
    /\ parsed.confidence > 80
    /\ branch # "ai"
    /\ aiLog = <<>>

FastPathWithAIConfigured ==
  /\ pc = "parsed"
  /\ MatchesSomePattern(instruction)
  /\ parsed.confidence = 85
  /\ aiConfig # Null
  /\ aiConfig.aiProvider = "groq"
  /\ aiConfig.aiApiKey = "key"
  /\ aiLog = <<>>

\* C2: parseInstruction delegates to the AI Intent Resolver exactly when the
\* classifier's confidence is at most 0.8 and aiConfig is non-null with a
\* provider; otherwise it returns the classifier's result and makes no AI call.
DelegatesIffLowConfidenceAndProvider ==
  Started =>
    LET quick == quickParseInstruction(instruction)
        shouldDelegate == /\ quick.confidence <= 80
                          /\ aiConfig # Null
                          /\ aiConfig.aiProvider # ""
    IN  /\ (branch = "ai") <=> shouldDelegate
        /\ (aiLog # <<>>) <=> shouldDelegate
        /\ ~shouldDelegate => parsed = quick

DelegatedToAI ==
  /\ pc = "parsed"
  /\ branch = "ai"
  /\ quickParseInstruction(instruction).confidence = 50
  /\ aiConfig # Null
  /\ aiConfig.aiProvider = "ollama"
  /\ aiLog = <<"getAIProvider", "complete">>
  /\ Has(parsed, "aiParsed")

\* C3: an instruction that matches no pattern is classified as
\* extract_article with targets [article, main_content], confidence 0.5 and
\* the input as originalInstruction; parseInstruction returns that when no AI
\* configuration is supplied.
NoMatchGivesDefaultArticle ==
  (Started /\ ~MatchesSomePattern(instruction)) =>
    LET quick == quickParseInstruction(instruction)
    IN  /\ quick.intent = "extract_article"
        /\ quick.targets = <<"article", "main_content">>
        /\ quick.confidence = 50
        /\ quick.originalInstruction = instruction
        /\ (aiConfig = Null \/ aiConfig.aiProvider = "") => parsed = quick

NoMatchWithoutAI ==
  /\ pc = "parsed"
  /\ instruction = <<"q","w","e","r","t","y"," ","z","z","z">>
  /\ aiConfig = Null
  /\ parsed.intent = "extract_article"
  /\ parsed.confidence = 50

NoJsonObject(response) ==
  ~\E i, j \in 1..Len(response) :
     i < j /\ response[i].t = "lb" /\ response[j].t = "rb"

MalformedJson(response) ==
  \E i, j \in 1..Len(response) :
    /\ i < j
    /\ response[i].t = "lb"
    /\ response[j].t = "rb"
    /\ \A n \in 1..(i - 1) : response[n].t # "lb"
    /\ \A n \in (j + 1)..Len(response) : response[n].t # "rb"
    /\ \E n \in (i + 1)..(j - 1) : response[n].t # "kv"

AIFailure(outcome) ==
  \/ outcome.kind \in {"providerThrows", "completeRejects", "notAString"}
  \/ outcome.kind = "text" /\ NoJsonObject(outcome.response)
  \/ outcome.kind = "text" /\ MalformedJson(outcome.response)

\* C4: on every failure of the AI path (provider construction throws, the
\* completion rejects, the answer holds no JSON object or a malformed one)
\* aiParseInstruction returns normally with the Pattern Classifier's result.
AIResolverFallsBackOnFailure ==
  (Started /\ branch = "ai" /\ AIFailure(aiOutcome)) =>
    parsed = quickParseInstruction(instruction)

AIAnswerMalformed ==
  /\ pc = "parsed"
  /\ branch = "ai"
  /\ aiOutcome.kind = "text"
  /\ aiOutcome.response = <<LB, Txt, RB>>
  /\ parsed.confidence = 50

ContentDataKeys ==
  {"headings", "links", "tables", "lists", "paragraphs", "textContent", "content"}

StructuredDataKeys == {"structured", "pricing", "contact", "product"}

Failed(module) ==
  module \in SeqToSet(invoked) /\ moduleOutcome[module] # "ok"

\* C5: when some of the modules code, content, media, structured fail,
\* executeExtractionPlan does not throw, a module that succeeded has its keys
\* in result.data and a module that failed has none.
FailureIsolation ==
  (Finished /\ \E module \in {"code", "content", "media", "structured"} :
                 Failed(module)) =>
    /\ pc = "executed"
    /\ LET data == DOMAIN results.data
           requested == SeqToSet(plan.extractors)
       IN  /\ moduleOutcome.code # "ok" => "code" \notin data
           /\ ("code" \in requested /\ moduleOutcome.code = "ok") => "code" \in data
           /\ moduleOutcome.content # "ok" => data \cap ContentDataKeys = {}
           /\ moduleOutcome.media # "ok" => data \cap {"images", "videos"} = {}
           /\ ("media" \in requested /\ moduleOutcome.media = "ok")
                => {"images", "videos"} \subseteq data
           /\ moduleOutcome.structured # "ok" => data \cap StructuredDataKeys = {}
           /\ ("structured" \in requested /\ moduleOutcome.structured = "ok")
                => data \cap StructuredDataKeys # {}

\* C6: when the structured module throws, the executor still returns a
\* result, without structured, pricing, contact or product, without a status,
\* and with data.metadata.
StructuredFailureKeepsMetadata ==
  (Finished /\ Failed("structured")) =>
    /\ pc = "executed"
    /\ DOMAIN results.data \cap StructuredDataKeys = {}
    /\ ~Has(results, "status")
    /\ Has(results.data, "metadata")

\* C7: when metadata extraction fails, executeExtractionPlan does not throw
\* and returns a result whose data.metadata is {error: message}.
MetadataAlwaysPresent ==
  (Finished /\ Failed("metadata")) =>
    /\ pc = "executed"
    /\ Has(results.data, "metadata")
    /\ DOMAIN results.data["metadata"] = {"error"}

AllModulesSucceed ==
  moduleOutcome = [code |-> "ok", content |-> "ok", media |-> "ok",
                   structured |-> "ok", metadata |-> "ok"]

\* C8: "Get all pricing information" on https://example.com/pricing parses to
\* extract_pricing with targets [pricing, tables, plans], plans the extractors
\* {content, structured} with options {includeTables, includePricing}, and
\* with all modules succeeding the result's data has tables and pricing and
\* no structured.
EndToEndPricing ==
  (Finished /\ instruction = <<"G","e","t"," ","a","l","l"," ","p","r","i","c","i","n","g"," ","i","n","f","o","r","m","a","t","i","o","n">>
            /\ url = <<"h","t","t","p","s",":","/","/","e","x","a","m","p","l","e",".","c","o","m","/","p","r","i","c","i","n","g">>
            /\ AllModulesSucceed) =>
    /\ parsed.intent = "extract_pricing"
    /\ parsed.targets = <<"pricing", "tables", "plans">>
    /\ SeqToSet(plan.extractors) = {"content", "structured"}
    /\ plan.options = [includeTables |-> TRUE, includePricing |-> TRUE]
    /\ pc = "executed"
    /\ {"tables", "pricing"} \subseteq DOMAIN results.data
    /\ "structured" \notin DOMAIN results.data

\* C9: targets = ["all"] plans the options includeImages, includeLinks,
\* includeTables, includeCode, includeLists and includeHeadings, all true, and
\* the extractors content, media and structured.
AllTargetSetsEveryOption ==
  (Planned /\ parsed.targets = <<"all">>) =>
    /\ \A flag \in {"includeImages", "includeLinks", "includeTables",
                    "includeCode", "includeLists", "includeHeadings"} :
         Has(plan.options, flag) /\ plan.options[flag] = TRUE
    /\ {"content", "media", "structured"} \subseteq SeqToSet(plan.extractors)

PlannedEverything ==
  /\ pc = "planned"
  /\ instruction = <<"e","v","e","r","y","t","h","i","n","g">>
  /\ parsed.targets = <<"all">>
  /\ Len(plan.extractors) = 3

\* C10: targets = ["images"] without requireAI, fileName or specifics plans
\* exactly the extractor media and exactly the option includeImages.
ImagesTargetOnlyMedia ==
  (/\ Planned
   /\ parsed.targets = <<"images">>
   /\ ~(Has(parsed, "requireAI") /\ parsed.requireAI)
   /\ ~Has(parsed, "fileName")
   /\ ~Has(parsed, "specifics")) =>
    /\ plan.extractors = <<"media">>
    /\ plan.options = [includeImages |-> TRUE]

PlannedImages ==
  /\ pc = "planned"
  /\ instruction = <<"s","h","o","w"," ","m","e"," ","t","h","e"," ","i","m","a","g","e","s">>
  /\ parsed.targets = <<"images">>
  /\ plan.extractors = <<"media">>

EmptyAcc == [extractors |-> <<>>, options |-> <<>>]

\* the options after the first k targets of a ParsedInstruction
OptionsAfter(targets, k) ==
  ApplyTargets(EmptyAcc, SubSeq(targets, 1, k)).options

\* C12: while createExtractionPlan processes the targets in order, an option
\* that is set after some target is still set after every later target
\* (the target "all" included) and in the plan.
OptionsAccumulateMonotonically ==
  Planned =>
    \A k \in 0..Len(parsed.targets) :
      \A flag \in DOMAIN OptionsAfter(parsed.targets, k) :
        /\ \A j \in k..Len(parsed.targets) :
             Has(OptionsAfter(parsed.targets, j), flag)
        /\ Has(plan.options, flag)

DispatchTags ==
  {"code", "files", "repository", "article", "main_content", "images",
   "links", "tables", "headings", "structure", "lists", "pricing", "plans",
   "contact_info", "product", "details", "documentation", "readme", "all"}

OnlyUnknownTargets ==
  \A i \in 1..Len(parsed.targets) : parsed.targets[i] \notin DispatchTags

StructuredFlags == {"includePricing", "includeContact", "includeProduct"}

FlagOfKey(key) ==
  CASE key = "pricing" -> "includePricing"
    [] key = "contact" -> "includeContact"
    [] key = "product" -> "includeProduct"

\* C14: in every result, data.structured is present only when none of
\* includePricing, includeContact, includeProduct is set, it never coexists
\* with data.pricing, data.contact or data.product, and each of these three
\* keys is present only when its own flag is set.
AllOrSpecificShape ==
  pc = "executed" =>
    LET data == DOMAIN results.data
    IN  /\ "structured" \in data =>
             \A flag \in StructuredFlags : ~Flag(plan.options, flag)
        /\ "structured" \in data =>
             data \cap {"pricing", "contact", "product"} = {}
        /\ \A key \in data \cap {"pricing", "contact", "product"} :
             Flag(plan.options, FlagOfKey(key))

SpecificStructuredKeys ==
  /\ pc = "executed"
  /\ Flag(plan.options, "includePricing")
  /\ ~Flag(plan.options, "includeContact")
  /\ "pricing" \in DOMAIN results.data
  /\ "contact" \notin DOMAIN results.data
  /\ "structured" \notin DOMAIN results.data

Intents == {patterns[i].intent : i \in 1..Len(patterns)}

\* C18: every ParsedInstruction parseInstruction returns, on the pattern
\* path and on the AI path, has an intent of the closed set of the rule table
\* and a non-empty targets list.
ParsedInstructionWellFormed ==
  Started =>
    /\ parsed.intent \in Intents
    /\ parsed.targets # <<>>

AnsweredWithObject ==
  /\ Started
  /\ branch = "ai"
  /\ aiOutcome.kind = "text"
  /\ ~NoJsonObject(aiOutcome.response)

\* the members between the first "{" and the last "}" of an answer
AnswerMembers(response) ==
  LET i == Min({n \in 1..Len(response) : response[n].t = "lb"})
      j == Max({n \in 1..Len(response) : response[n].t = "rb"})
  IN  {response[n] : n \in (i + 1)..(j - 1)}

\* C19: when the AI backend answers with text holding a JSON object,
\* aiParseInstruction returns a ParsedInstruction with confidence 0.95 and
\* aiParsed true; when parsing the object fails or a field is missing, the
\* defaults extract_all and ["all"] take its place.
AIAnswerAlwaysAIParsed ==
  AnsweredWithObject =>
    /\ parsed.confidence = 95
    /\ Has(parsed, "aiParsed") /\ parsed.aiParsed
    /\ MalformedJson(aiOutcome.response) =>
         parsed.intent = "extract_all" /\ parsed.targets = <<"all">>
    /\ (\A m \in AnswerMembers(aiOutcome.response) : m.k # "intent") =>
         parsed.intent = "extract_all"
    /\ (\A m \in AnswerMembers(aiOutcome.response) : m.k # "targets") =>
         parsed.targets = <<"all">>

\* C19 (amended): the object is the text from the first "{" to the last "}".
\* When it parses, the result has confidence 0.95, aiParsed true, and the
\* defaults extract_all and ["all"] for a missing intent or targets; when it
\* does not parse, the result is the Pattern Classifier's.
AIAnswerParsedOrClassifier ==
  AnsweredWithObject =>
    IF MalformedJson(aiOutcome.response)
    THEN parsed = quickParseInstruction(instruction)
    ELSE /\ parsed.confidence = 95
         /\ Has(parsed, "aiParsed") /\ parsed.aiParsed
         /\ (\A m \in AnswerMembers(aiOutcome.response) : m.k # "intent") =>
              parsed.intent = "extract_all"
         /\ (\A m \in AnswerMembers(aiOutcome.response) : m.k # "targets") =>
              parsed.targets = <<"all">>

AIAnswerEmptyObject ==
  /\ pc = "parsed"
  /\ branch = "ai"
  /\ aiOutcome.kind = "text"
  /\ aiOutcome.response = <<LB, RB>>
  /\ parsed.intent = "extract_all"
  /\ parsed.targets = <<"all">>
  /\ parsed.confidence = 95
  /\ parsed.aiParsed

\* C20: whenever executeExtractionPlan returns, the result it returns has
\* status "success" and extractedAt set.
ExecutorSetsStatus ==
  pc = "executed" =>
    /\ Has(results, "status") /\ results.status = "success"
    /\ Has(results, "extractedAt")

\* C20 (amended): whenever executeExtractionPlan returns, the result it
\* returns has extractedAt set and no status.
ExecutorSetsExtractedAtOnly ==
  pc = "executed" =>
    /\ Has(results, "extractedAt")
    /\ ~Has(results, "status")

ExecutorReturned ==
  /\ pc = "executed"
  /\ executor = "guarded"
  /\ results.extractedAt = "now"
  /\ DOMAIN results = {"instruction", "intent", "url", "extractedAt", "data"}

PostProcessed == postProcessor # "none"

\* C15: postProcessWithAI is a no-op when plan.requiresAI is false, whatever
\* aiConfig is (null included), and when the aiConfig object has no provider:
\* it returns the result it was given, without aiProcessing, and makes no
\* call on the AI backend.
PostProcessIsNoOp ==
  (/\ PostProcessed
   /\ \/ ~RequiresAI(plan)
      \/ aiConfig # Null /\ aiConfig.aiProvider = "") =>
    /\ pc = "processed"
    /\ results = ExecutedResults
    /\ ~Has(results, "aiProcessing")
    /\ aiBackend = <<>>

NoProviderNoOp ==
  /\ pc = "processed"
  /\ postProcessor = "guarded"
  /\ RequiresAI(plan)
  /\ aiConfig # Null
  /\ aiConfig.aiProvider = ""
  /\ aiBackend = <<>>
  /\ ~Has(results, "aiProcessing")

CrawlFinished ==
  crawl # <<>> /\ \A i \in DOMAIN crawl : crawl[i].pc = "done"

RecordsOf(u) == {n \in DOMAIN crawlResults : crawlResults[n].url = u}

\* C17: with up to three request handlers interleaving at their awaits, a
\* failure on one URL never stops the crawl from going on with the others,
\* and when the crawl has finished every URL has exactly one record in
\* results, each record has status success or failed, and successCount +
\* failCount is the number of records.
CrawlRecordsEveryURLOnce ==
  /\ Cardinality(Active) <= 3
  /\ (crawl # <<>> /\ ~CrawlFinished) => ENABLED NextCrawler
  /\ CrawlFinished =>
       /\ \A i \in DOMAIN crawl : Cardinality(RecordsOf(urls[i])) = 1
       /\ \A n \in DOMAIN crawlResults :
            crawlResults[n].status \in {"success", "failed"}
       /\ successCount + failCount = Len(crawlResults)

CrawlFinishedAfterFailure ==
  /\ CrawlFinished
  /\ ~slowMode
  /\ Len(crawlResults) = Len(urls)
  /\ crawlResults[1].url = urls[Len(urls)]
  /\ crawlResults[1].status = "failed"
  /\ successCount = Len(urls) - 1
  /\ failCount = 1

RulesHit(instr) ==
  LET lower == toLowerCase(instr)
  IN  {i \in 1..Len(patterns) :
         \E k \in 1..Len(patterns[i].patterns) :
           includes(lower, patterns[i].patterns[k])}

ClassifierReturned == Started /\ branch # "ai"

\* C22: for an instruction that contains patterns of several rules, the
\* Pattern Classifier returns the intent, targets, confidence and requireAI
\* of the earliest of these rules, and a fileName only when that rule asks
\* for one.
FirstMatchWins ==
  (ClassifierReturned /\ Cardinality(RulesHit(instruction)) >= 2) =>
    \E first \in RulesHit(instruction) :
      /\ \A later \in RulesHit(instruction) : first <= later
      /\ parsed.intent = patterns[first].intent
      /\ parsed.targets = patterns[first].targets
      /\ parsed.confidence = patterns[first].confidence
      /\ parsed.requireAI = patterns[first].requireAI
      /\ parsed.originalInstruction = instruction
      /\ Has(parsed, "fileName") => patterns[first].extractFileName
      /\ DOMAIN parsed \subseteq {"intent", "targets", "confidence", "requireAI",
                                  "originalInstruction", "fileName"}

SeveralRulesHit ==
  /\ pc = "parsed"
  /\ instruction = <<"c","o","n","t","a","c","t"," ","e","m","a","i","l"," ","a","n","d"," ","p","r","i","c","i","n","g">>
  /\ Cardinality(RulesHit(instruction)) >= 2
  /\ parsed.intent = "extract_pricing"

\* the patterns of the rule with the given intent
PatternsOf(intent) ==
  LET i == CHOOSE n \in 1..Len(patterns) : patterns[n].intent = intent
  IN  SeqToSet(patterns[i].patterns)

ContainsPatternOf(instr, intent) ==
  \E p \in PatternsOf(intent) : includes(toLowerCase(instr), p)

\* C23: an instruction that contains a specific-file pattern and a generic
\* code pattern is classified as extract_specific_file, with the fileName
\* extracted, not as extract_code.
SpecificFileBeforeCode ==
  (/\ ClassifierReturned
   /\ ContainsPatternOf(instruction, "extract_specific_file")
   /\ ContainsPatternOf(instruction, "extract_code")) =>
    /\ parsed.intent = "extract_specific_file"
    /\ Has(parsed, "fileName")

\* C24: the code module is invoked exactly when plan.extractors includes
\* "code" or plan.url is on a code-hosting platform; when it was invoked and
\* succeeded under options.specificFile, data.code.files holds exactly the
\* extracted files whose name contains specificFile, case-sensitively, in
\* their order.
CodeModuleAndFileFilter ==
  Finished =>
    /\ "code" \in SeqToSet(invoked)
         <=> \/ \E k \in DOMAIN plan.extractors : plan.extractors[k] = "code"
             \/ detectCodePlatform(plan.url) # "website"
    /\ (/\ pc = "executed"
        /\ "code" \in SeqToSet(invoked)
        /\ moduleOutcome.code = "ok"
        /\ Has(plan.options, "specificFile")) =>
         /\ Has(results.data, "code")
         /\ \A k \in DOMAIN results.data.code.files :
              \E a \in 0..Len(results.data.code.files[k].name) :
                LET name == results.data.code.files[k].name
                    wanted == plan.options.specificFile
                IN  /\ a + Len(wanted) <= Len(name)
                    /\ SubSeq(name, a + 1, a + Len(wanted)) = wanted
         /\ results.data.code.files =
              SelectSeq(page.code.files,
                        LAMBDA f : includes(f.name, plan.options.specificFile))

SpecificFileFiltered ==
  /\ pc = "executed"
  /\ "code" \notin SeqToSet(plan.extractors)
  /\ "code" \in SeqToSet(invoked)
  /\ moduleOutcome.code = "ok"
  /\ Has(plan.options, "specificFile")
  /\ Len(results.data.code.files) = 1
  /\ Len(page.code.files) > 1

\* C25: for a plan made from targets that include "article" or
\* "main_content", a content module that succeeded leaves data.paragraphs,
\* the paragraphs of the page, and data.textContent, these paragraphs joined
\* by a blank line.
ArticleYieldsParagraphs ==
  (/\ Finished
   /\ \E k \in DOMAIN parsed.targets :
        parsed.targets[k] \in {"article", "main_content"}
   /\ "content" \in SeqToSet(invoked)
   /\ moduleOutcome.content = "ok") =>
    /\ pc = "executed"
    /\ Has(results.data, "paragraphs")
    /\ Has(results.data, "textContent")
    /\ results.data.paragraphs = page.paragraphs
    /\ results.data.textContent = join(page.paragraphs, <<"\n","\n">>)

ModuleNames == <<"code", "content", "media", "structured", "metadata">>

\* the effect of one module's block of executeExtractionPlan on results.data
Module(name, p, pl, out, data) ==
  CASE name = "code" -> GuardedCode(p, pl, out, data)
    [] name = "content" -> GuardedContent(p, pl, out, data)
    [] name = "media" -> GuardedMedia(p, pl, out, data)
    [] name = "structured" -> GuardedStructured(p, pl, out, data)
    [] name = "metadata" -> GuardedMetadata(p, out, data)

\* the orders in which the given modules can be invoked
Orders(modules) ==
  {order \in [1..Cardinality(modules) -> modules] :
     \A a, b \in DOMAIN order : order[a] = order[b] => a = b}

\* what each module writes when it is the only one to run
Contributions(p, pl, out) ==
  [ code |-> Module("code", p, pl, out, <<>>),
    content |-> Module("content", p, pl, out, <<>>),
    media |-> Module("media", p, pl, out, <<>>),
    structured |-> Module("structured", p, pl, out, <<>>),
    metadata |-> Module("metadata", p, pl, out, <<>>) ]

\* result.data after the modules wrote in the given order, a later write
\* replacing an earlier one of the same key
RECURSIVE WriteInOrder(_, _, _)
WriteInOrder(order, written, data) ==
  IF order = <<>> THEN data
  ELSE WriteInOrder(Tail(order), written, written[Head(order)] @@ data)

\* the modules that wrote some key; the others leave result.data as it is
\* wherever they come in the order
Writers(written) == {name \in DOMAIN written : DOMAIN written[name] # {}}

\* the plan as executed, and the same plan carrying the targets it was
\* planned from
PlansToRun == {plan, [plan EXCEPT !.targets = parsed.targets]}

\* C26: the modules code, content, media, structured and metadata write
\* pairwise disjoint keys of result.data, each writes the same whatever
\* another wrote before it, and every invocation order of the modules that
\* write gives the same result.data, the one executeExtractionPlan returns.
ModulesWriteDisjointKeys ==
  (pc = "executed" /\ executor = "guarded") =>
    \A pl \in PlansToRun :
      LET written == Contributions(page, pl, moduleOutcome)
      IN  /\ \A a, b \in SeqToSet(ModuleNames) :
               a # b =>
                 /\ DOMAIN written[a] \cap DOMAIN written[b] = {}
                 /\ Module(a, page, pl, moduleOutcome, written[b])
                      = written[a] @@ written[b]
          /\ \A order \in Orders(Writers(written)) :
               WriteInOrder(order, written, <<>>)
                 = WriteInOrder(ModuleNames, written, <<>>)
          /\ pl = plan => WriteInOrder(ModuleNames, written, <<>>) = results.data
          /\ DOMAIN written["code"] \subseteq {"code"}
          /\ DOMAIN written["content"] \subseteq ContentDataKeys
          /\ DOMAIN written["media"] \subseteq {"images", "videos"}
          /\ DOMAIN written["structured"] \subseteq StructuredDataKeys
          /\ DOMAIN written["metadata"] = {"metadata"}

FourModulesWrote ==
  /\ pc = "executed"
  /\ executor = "guarded"
  /\ DOMAIN results.data = {"code", "images", "videos", "structured", "metadata"}

\* C27: once createExtractionPlan has returned the plan, no step of the
\* executor or of the post-processor changes it: no field is added, removed
\* or replaced.
PlanImmutable == [][plan # Null => plan' = plan]_vars

RequireAISet == Has(parsed, "requireAI") /\ parsed.requireAI = TRUE

\* C28: the plan of a request has requiresAI = true and aiTask = the parsed
\* intent exactly when the parsed instruction has requireAI set, and has
\* neither field otherwise; a record of the crawl carries aiProcessing only
\* when the plan requires AI and a provider is configured (ollama, or a
\* provider of the key list with a non-empty key), and its task is the
\* parsed intent.
AIProcessingOnlyWhenRequired ==
  /\ \A i \in DOMAIN crawl :
       LET pl == createExtractionPlan(parsed, urls[i])
       IN  /\ RequireAISet <=> (Has(pl, "requiresAI") /\ pl.requiresAI = TRUE)
           /\ RequireAISet <=> (Has(pl, "aiTask") /\ pl.aiTask = parsed.intent)
           /\ ~RequireAISet => ~Has(pl, "requiresAI") /\ ~Has(pl, "aiTask")
           /\ crawl[i].aiProcessing # Null => RequireAISet
  /\ \A n \in DOMAIN crawlResults :
       Has(crawlResults[n], "aiProcessing") =>
         /\ RequireAISet
         /\ \/ aiConfig.aiProvider = "ollama"
            \/ /\ aiConfig.aiProvider \in {"openai", "anthropic", "google", "groq",
                                            "huggingface", "together"}
               /\ aiConfig.aiApiKey # ""
         /\ crawlResults[n].status = "success"
         /\ crawlResults[n].aiProcessing.task = parsed.intent

RecordWithAIProcessing ==
  /\ crawl # <<>>
  /\ RequireAISet
  /\ \E n \in DOMAIN crawlResults :
       /\ Has(crawlResults[n], "aiProcessing")
       /\ crawlResults[n].aiProcessing.task = parsed.intent
  /\ \E n \in DOMAIN crawlResults : crawlResults[n].status = "failed"

\* C29: every extractor name that createExtractionPlan put into
\* plan.extractors is one executeExtractionPlan dispatches on: when the
\* executor returns, it has invoked the module of every planned extractor.
PlannedExtractorsDispatched ==
  pc = "executed" =>
    \A k \in DOMAIN plan.extractors : plan.extractors[k] \in SeqToSet(invoked)

\* C30: for a provider name given with a non-empty key, or for ollama
\* without one, the gate isAIConfigured admits the provider exactly when
\* callAI knows the provider name: no admitted provider is rejected as
\* unknown and no provider of the backend's table is refused.
GateAgreesWithProviderTable ==
  (/\ pc = "called"
   /\ aiConfig.aiApiKey # "" \/ aiConfig.aiProvider = "ollama") =>
    (gate.admitted
       <=> ~(gate.call.kind = "throws" /\ gate.call.message = "Unknown provider"))

====
